---- MODULE Spec2Model ----
(***************************************************************************)
(* Model of src/api/internal/BamMultiMerger_p.h: the three IBamMultiMerger *)
(* implementations (PositionMultiMerger, ReadNameMultiMerger,              *)
(* UnsortedMultiMerger) that order the head records of a BamMultiReader.   *)
(*                                                                         *)
(* A std::multimap is modelled as the sequence of its elements in          *)
(* iteration order, a std::vector as the sequence of its elements.         *)
(* First() and TakeFirst() on an empty container are undefined behaviour   *)
(* that every caller must exclude with IsEmpty(); those calls are outside  *)
(* the model (the actions are guarded by ~IsEmpty).                        *)
(***************************************************************************)
EXTENDS Integers, Sequences, FiniteSets, TLC

\* ------------------------------------------------------------------ bounds
\* Total number of Add() calls in one behaviour.
MaxAdds == 3
\* RefID ranges over -1 .. MaxRefID (-1 is the unmapped sentinel).
MaxRefID == 1
\* Position ranges over 0 .. MaxPos.
MaxPos == 1
\* Non-null BamReader* handles are 1 .. NumHandles; 0 is the null pointer.
NumHandles == 3
\* Read names are the strings over the characters 1 .. MaxChar of length
\* at most MaxNameLen.
MaxChar == 2
MaxNameLen == 1
\* The read loop merges NumSources sources of at most MaxStreamLen records.
NumSources == 3
MaxStreamLen == 2

\* ------------------------------------------------------------------ values
Variants == {"Position", "ReadName", "Unsorted"}

NullReader == 0
Handles == 1 .. NumHandles
Readers == {NullReader} \cup Handles

\* BamReader::GetFilename(): the stable key of a reader.  Handles 2k-1 and 2k
\* are two handles of the same file k.
GetFilename(reader) == (reader + 1) \div 2

\* The readers entries are added with: the null pointer and one handle per
\* file.  The mergers read nothing of an entry's reader but whether it is
\* null and its file name, so the second handle of a file is only needed as
\* the argument of Remove().
EntryReaders == {NullReader} \cup {h \in Handles : h % 2 = 1}

RefIDs == (-1) .. MaxRefID
Positions == 0 .. MaxPos
Names == UNION {[1 .. n -> 1 .. MaxChar] : n \in 0 .. MaxNameLen}

\* A BamAlignment as the mergers see it.  id stands for the identity of the
\* record; charData is the result BuildCharData() will give, Name the name
\* it materializes.
Alignment(id, refId, pos, name, ok) ==
    [id |-> id, RefID |-> refId, Position |-> pos, Name |-> name, charData |-> ok]

\* typedef std::pair<BamReader*, BamAlignment*> ReaderAlignment
ReaderAlignment(reader, al) == [first |-> reader, second |-> al]

NoValue == ReaderAlignment(NullReader, Alignment(0, 0, 0, <<>>, FALSE))

\* The alignments a caller hands to the merger of each variant: the fields a
\* variant never reads are held fixed.
AlignmentsFor(v, id) ==
    IF v = "Position"
    THEN {Alignment(id, r, p, <<>>, TRUE) : r \in RefIDs, p \in Positions}
    ELSE IF v = "ReadName"
    THEN {Alignment(id, 0, 0, n, ok) : n \in Names, ok \in BOOLEAN}
    ELSE {Alignment(id, 0, 0, <<>>, TRUE)}

\* ------------------------------------------------------------- comparators
\* Variant of SortLessThanPosition: the position decides before the RefID.
SortLessThanPosition_PositionFirst(lhs, rhs) ==
    IF lhs[1] = -1 THEN FALSE
    ELSE IF rhs[1] = -1 THEN TRUE
    ELSE IF lhs[2] # rhs[2] THEN lhs[2] < rhs[2]
    ELSE lhs[1] < rhs[1]

\* Variant of SortLessThanPosition: no special case for an unmapped lhs.
SortLessThanPosition_UnmappedLhs(lhs, rhs) ==
    IF rhs[1] = -1 THEN TRUE
    ELSE IF lhs[1] # rhs[1] THEN lhs[1] < rhs[1]
    ELSE lhs[2] < rhs[2]

\* Variant of SortLessThanPosition: the unmapped rhs is looked at first.
SortLessThanPosition_RhsFirst(lhs, rhs) ==
    IF rhs[1] = -1 THEN TRUE
    ELSE IF lhs[1] = -1 THEN FALSE
    ELSE IF lhs[1] # rhs[1] THEN lhs[1] < rhs[1]
    ELSE lhs[2] < rhs[2]

\* PositionMultiMerger::SortLessThanPosition::operator()
SortLessThanPosition(lhs, rhs) ==
    IF lhs[1] = -1 THEN FALSE
    ELSE IF rhs[1] = -1 THEN TRUE
    ELSE IF lhs[1] # rhs[1] THEN lhs[1] < rhs[1]
    ELSE lhs[2] < rhs[2]

Min(a, b) == IF a < b THEN a ELSE b

\* Variant of StringLess: a proper prefix is not less.
StringLess_NoPrefix(lhs, rhs) ==
    LET n == Min(Len(lhs), Len(rhs))
        diff == {i \in 1 .. n : lhs[i] # rhs[i]}
    IN  IF diff = {}
        THEN FALSE
        ELSE LET d == CHOOSE i \in diff : \A j \in diff : i <= j
             IN  lhs[d] < rhs[d]

\* std::less<std::string>: the first differing character decides, a proper
\* prefix is less.
StringLess(lhs, rhs) ==
    LET n == Min(Len(lhs), Len(rhs))
        diff == {i \in 1 .. n : lhs[i] # rhs[i]}
    IN  IF diff = {}
        THEN Len(lhs) < Len(rhs)
        ELSE LET d == CHOOSE i \in diff : \A j \in diff : i <= j
             IN  lhs[d] < rhs[d]

\* ------------------------------------------------------------- containers
\* Variant of PositionUpperBound: the lower bound of key.
PositionUpperBound_Lower(m, key) ==
    LET after == {i \in 1 .. Len(m) : ~SortLessThanPosition(m[i].key, key)}
    IN  IF after = {} THEN Len(m) + 1
        ELSE CHOOSE i \in after : \A j \in after : i <= j

\* Variant of ReadNameUpperBound: the lower bound of key.
ReadNameUpperBound_Lower(m, key) ==
    LET after == {i \in 1 .. Len(m) : ~StringLess(m[i].key, key)}
    IN  IF after = {} THEN Len(m) + 1
        ELSE CHOOSE i \in after : \A j \in after : i <= j

\* Insertion point of std::multimap::insert: the upper bound of key, so an
\* element goes after every element whose key is not greater than its own.
\* In the multimap sorted with SortLessThanPosition:
PositionUpperBound(m, key) ==
    LET after == {i \in 1 .. Len(m) : SortLessThanPosition(key, m[i].key)}
    IN  IF after = {} THEN Len(m) + 1
        ELSE CHOOSE i \in after : \A j \in after : i <= j

\* In the multimap sorted with std::less<std::string>:
ReadNameUpperBound(m, key) ==
    LET after == {i \in 1 .. Len(m) : StringLess(key, m[i].key)}
    IN  IF after = {} THEN Len(m) + 1
        ELSE CHOOSE i \in after : \A j \in after : i <= j

InsertAt(m, i, e) == SubSeq(m, 1, i - 1) \o <<e>> \o SubSeq(m, i, Len(m))

\* erase(iterator) of a multimap or a vector
EraseAt(m, i) == SubSeq(m, 1, i - 1) \o SubSeq(m, i + 1, Len(m))

\* typedef std::pair<KeyType, ValueType> ElementType
ElementType(key, value) == [key |-> key, value |-> value]

\* Variant of FirstMatch: the last matching element.
FirstMatch_Last(readers, filenameToRemove) ==
    LET hits == {i \in 1 .. Len(readers) :
                    /\ readers[i] # NullReader
                    /\ GetFilename(readers[i]) = filenameToRemove}
    IN  IF hits = {} THEN 0
        ELSE CHOOSE i \in hits : \A j \in hits : i >= j

\* Variant of FirstMatch: the file names are not compared.
FirstMatch_AnyFile(readers, filenameToRemove) ==
    LET hits == {i \in 1 .. Len(readers) : readers[i] # NullReader}
    IN  IF hits = {} THEN 0
        ELSE CHOOSE i \in hits : \A j \in hits : i <= j

\* The index the Remove() loops stop at: the first element, in iteration
\* order, whose reader is non-null and has the file name looked for; 0 when
\* the loop runs to the end.
FirstMatch(readers, filenameToRemove) ==
    LET hits == {i \in 1 .. Len(readers) :
                    /\ readers[i] # NullReader
                    /\ GetFilename(readers[i]) = filenameToRemove}
    IN  IF hits = {} THEN 0
        ELSE CHOOSE i \in hits : \A j \in hits : i <= j

\* ------------------------------------------------------ PositionMultiMerger
\* Variant of PositionMultiMerger_Add: a container of unique keys (std::map),
\* whose insert does nothing when an equivalent key is present.
PositionMultiMerger_Add_UniqueKeys(m, value) ==
    LET key == <<value.second.RefID, value.second.Position>>
    IN  IF \E i \in 1 .. Len(m) : /\ ~SortLessThanPosition(key, m[i].key)
                                  /\ ~SortLessThanPosition(m[i].key, key)
        THEN m
        ELSE InsertAt(m, PositionUpperBound(m, key), ElementType(key, value))

\* Variant of PositionMultiMerger_Add: the element goes to the end.
PositionMultiMerger_Add_AtEnd(m, value) ==
    Append(m, ElementType(<<value.second.RefID, value.second.Position>>, value))

PositionMultiMerger_Add(m, value) ==
    LET key == <<value.second.RefID, value.second.Position>>
    IN  InsertAt(m, PositionUpperBound(m, key), ElementType(key, value))

PositionMultiMerger_Clear(m) == <<>>

\* Variant of PositionMultiMerger_First: the last element of the multimap.
PositionMultiMerger_First_Last(m) == m[Len(m)].value

PositionMultiMerger_First(m) == m[1].value

\* Variant of PositionMultiMerger_IsEmpty: the test is inverted.
PositionMultiMerger_IsEmpty_Inverted(m) == Len(m) # 0

PositionMultiMerger_IsEmpty(m) == Len(m) = 0

\* Variant of PositionMultiMerger_Remove: the pointers are compared, not the
\* file names.
PositionMultiMerger_Remove_ByHandle(m, reader) ==
    IF reader = NullReader THEN m
    ELSE LET hits == {k \in 1 .. Len(m) : m[k].value.first = reader}
         IN  IF hits = {} THEN m
             ELSE EraseAt(m, CHOOSE i \in hits : \A j \in hits : i <= j)

\* Variant of PositionMultiMerger_Remove: the loop goes on after a match.
PositionMultiMerger_Remove_All(m, reader) ==
    IF reader = NullReader THEN m
    ELSE SelectSeq(m, LAMBDA e : ~(/\ e.value.first # NullReader
                                    /\ GetFilename(e.value.first) = GetFilename(reader)))

PositionMultiMerger_Remove(m, reader) ==
    IF reader = NullReader THEN m
    ELSE LET i == FirstMatch([k \in 1 .. Len(m) |-> m[k].value.first],
                             GetFilename(reader))
         IN  IF i = 0 THEN m ELSE EraseAt(m, i)

PositionMultiMerger_Size(m) == Len(m)

\* Variant of PositionMultiMerger_TakeFirst: the first element is not erased.
PositionMultiMerger_TakeFirst_Peek(m) == [next |-> m[1].value, data |-> m]

PositionMultiMerger_TakeFirst(m) == [next |-> m[1].value, data |-> EraseAt(m, 1)]

\* ------------------------------------------------------ ReadNameMultiMerger
\* Variant of ReadNameMultiMerger_Add: the result of BuildCharData() is
\* not looked at.
ReadNameMultiMerger_Add_Unchecked(m, value) ==
    LET al == value.second
    IN  InsertAt(m, ReadNameUpperBound(m, al.Name), ElementType(al.Name, value))

ReadNameMultiMerger_Add(m, value) ==
    LET al == value.second
    IN  IF al.charData
        THEN InsertAt(m, ReadNameUpperBound(m, al.Name), ElementType(al.Name, value))
        ELSE m

ReadNameMultiMerger_Clear(m) == <<>>

ReadNameMultiMerger_First(m) == m[1].value

ReadNameMultiMerger_IsEmpty(m) == Len(m) = 0

ReadNameMultiMerger_Remove(m, reader) ==
    IF reader = NullReader THEN m
    ELSE LET i == FirstMatch([k \in 1 .. Len(m) |-> m[k].value.first],
                             GetFilename(reader))
         IN  IF i = 0 THEN m ELSE EraseAt(m, i)

ReadNameMultiMerger_Size(m) == Len(m)

ReadNameMultiMerger_TakeFirst(m) == [next |-> m[1].value, data |-> EraseAt(m, 1)]

\* ------------------------------------------------------ UnsortedMultiMerger
\* Variant of UnsortedMultiMerger_Add: the element goes to the front.
UnsortedMultiMerger_Add_Front(m, value) == <<value>> \o m

UnsortedMultiMerger_Add(m, value) == Append(m, value)

\* for (size_t i = 0; i < m_data.size(); ++i) m_data.pop_back();
RECURSIVE ClearLoop(_, _)
ClearLoop(m, i) ==
    IF i < Len(m) THEN ClearLoop(SubSeq(m, 1, Len(m) - 1), i + 1) ELSE m

UnsortedMultiMerger_Clear(m) == ClearLoop(m, 0)

UnsortedMultiMerger_First(m) == m[1]

UnsortedMultiMerger_IsEmpty(m) == Len(m) = 0

UnsortedMultiMerger_Remove(m, reader) ==
    IF reader = NullReader THEN m
    ELSE LET i == FirstMatch([k \in 1 .. Len(m) |-> m[k].first],
                             GetFilename(reader))
         IN  IF i = 0 THEN m ELSE EraseAt(m, i)

UnsortedMultiMerger_Size(m) == Len(m)

\* Variant of UnsortedMultiMerger_TakeFirst: takes the back of the vector.
UnsortedMultiMerger_TakeFirst_Back(m) ==
    [next |-> m[Len(m)], data |-> SubSeq(m, 1, Len(m) - 1)]

UnsortedMultiMerger_TakeFirst(m) == [next |-> m[1], data |-> EraseAt(m, 1)]

\* ------------------------------------------- IBamMultiMerger (the dispatch)
Add(v, m, value) ==
    IF v = "Position" THEN PositionMultiMerger_Add(m, value)
    ELSE IF v = "ReadName" THEN ReadNameMultiMerger_Add(m, value)
    ELSE UnsortedMultiMerger_Add(m, value)

Clear(v, m) ==
    IF v = "Position" THEN PositionMultiMerger_Clear(m)
    ELSE IF v = "ReadName" THEN ReadNameMultiMerger_Clear(m)
    ELSE UnsortedMultiMerger_Clear(m)

First(v, m) ==
    IF v = "Position" THEN PositionMultiMerger_First(m)
    ELSE IF v = "ReadName" THEN ReadNameMultiMerger_First(m)
    ELSE UnsortedMultiMerger_First(m)

IsEmpty(v, m) ==
    IF v = "Position" THEN PositionMultiMerger_IsEmpty(m)
    ELSE IF v = "ReadName" THEN ReadNameMultiMerger_IsEmpty(m)
    ELSE UnsortedMultiMerger_IsEmpty(m)

Remove(v, m, reader) ==
    IF v = "Position" THEN PositionMultiMerger_Remove(m, reader)
    ELSE IF v = "ReadName" THEN ReadNameMultiMerger_Remove(m, reader)
    ELSE UnsortedMultiMerger_Remove(m, reader)

Size(v, m) ==
    IF v = "Position" THEN PositionMultiMerger_Size(m)
    ELSE IF v = "ReadName" THEN ReadNameMultiMerger_Size(m)
    ELSE UnsortedMultiMerger_Size(m)

TakeFirst(v, m) ==
    IF v = "Position" THEN PositionMultiMerger_TakeFirst(m)
    ELSE IF v = "ReadName" THEN ReadNameMultiMerger_TakeFirst(m)
    ELSE UnsortedMultiMerger_TakeFirst(m)

\* The buffered ReaderAlignment values in iteration order.
Values(v, m) ==
    IF v = "Unsorted" THEN m ELSE [k \in 1 .. Len(m) |-> m[k].value]

\* ------------------------------------------------------------------- state
VARIABLES
    variant,      \* which implementation was constructed
    m_data,       \* its container, in iteration order
    nextId,       \* number of Add() calls made so far
    inserted,     \* history: the values Add() was called with and could buffer
    dropped,      \* history: the values whose name did not materialize
    out,          \* history: the values TakeFirst() returned, in order
    nRemoved,     \* history: number of Remove() calls that had a match
    nDiscarded,   \* history: number of entries Clear() calls took out
    phase,        \* history: "fill" while only Add() was called, "drain" once
                  \* only TakeFirst() followed, "other" after anything else
    last,         \* history: the last call, its argument, result and pre-state
    streams,      \* driver: the records each source still has to deliver
    pc,           \* driver: position in the read loop ("api": no driver)
    closed        \* driver: the sources found exhausted or retired

vars == <<variant, m_data, nextId, inserted, dropped, out, nRemoved, nDiscarded,
          phase, last, streams, pc, closed>>

history == <<inserted, dropped, out, nRemoved, nDiscarded>>

Call(op, reader, value, before) ==
    [op |-> op, reader |-> reader, value |-> value, before |-> before]

\* Add() buffers a value unless the name-sorted merger cannot build its name.
Materializes(v, value) == v # "ReadName" \/ value.second.charData

\* Remove(reader) has a match: some buffered entry has a non-null reader with
\* the file name of the non-null reader asked for.
HasMatch(v, m, reader) ==
    /\ reader # NullReader
    /\ \E i \in 1 .. Len(m) :
          /\ Values(v, m)[i].first # NullReader
          /\ GetFilename(Values(v, m)[i].first) = GetFilename(reader)

\* ------------------------------------------------- orders the claims speak of
\* (referenceId, position) order with unmapped last: a is not after b.
KeyLeq(a, b) ==
    \/ b.RefID = -1
    \/ /\ a.RefID # -1
       /\ \/ a.RefID < b.RefID
          \/ a.RefID = b.RefID /\ a.Position <= b.Position

\* Lexicographic order of names: a is not after b.
RECURSIVE LexLeq(_, _)
LexLeq(a, b) ==
    \/ a = <<>>
    \/ /\ b # <<>>
       /\ \/ Head(a) < Head(b)
          \/ Head(a) = Head(b) /\ LexLeq(Tail(a), Tail(b))

\* al1 may precede al2 in a stream sorted for variant v.
InOrder(v, al1, al2) ==
    IF v = "Position" THEN KeyLeq(al1, al2)
    ELSE IF v = "ReadName" THEN LexLeq(al1.Name, al2.Name)
    ELSE TRUE

NonDecreasing(v, als) ==
    \A i \in 1 .. Len(als) : \A j \in i + 1 .. Len(als) : InOrder(v, als[i], als[j])

InitMerger ==
    /\ variant \in Variants
    /\ m_data = <<>>
    /\ nextId = 0
    /\ inserted = <<>>
    /\ dropped = {}
    /\ out = <<>>
    /\ nRemoved = 0
    /\ nDiscarded = 0
    /\ phase = "fill"
    /\ last = Call("new", NullReader, NoValue, <<>>)
    /\ closed = {}

Init ==
    /\ InitMerger
    /\ streams = <<>>
    /\ pc = [at |-> "api", src |-> 0]

\* ----------------------------------------------------------------- actions
\* m_alignments->Add(value)
DoAdd ==
    /\ nextId < MaxAdds
    /\ \E reader \in EntryReaders : \E al \in AlignmentsFor(variant, nextId + 1) :
          LET value == ReaderAlignment(reader, al) IN
          /\ m_data' = Add(variant, m_data, value)
          /\ nextId' = nextId + 1
          /\ inserted' = IF Materializes(variant, value)
                         THEN Append(inserted, value) ELSE inserted
          /\ dropped' = IF Materializes(variant, value)
                        THEN dropped ELSE dropped \cup {value}
          /\ phase' = IF phase = "fill" THEN "fill" ELSE "other"
          /\ last' = Call("Add", reader, value, m_data)
    /\ UNCHANGED <<variant, out, nRemoved, nDiscarded, streams, pc, closed>>

\* m_alignments->Clear()
DoClear ==
    /\ m_data' = Clear(variant, m_data)
    /\ nDiscarded' = nDiscarded + (Len(m_data) - Len(m_data'))
    /\ phase' = "other"
    /\ last' = Call("Clear", NullReader, NoValue, m_data)
    /\ UNCHANGED <<variant, nextId, inserted, dropped, out, nRemoved, streams, pc, closed>>

\* m_alignments->First(), guarded by IsEmpty()
DoFirst ==
    /\ ~IsEmpty(variant, m_data)
    /\ last' = Call("First", NullReader, First(variant, m_data), m_data)
    /\ UNCHANGED <<variant, m_data, nextId, history, phase, streams, pc, closed>>

\* m_alignments->Remove(reader)
DoRemove ==
    /\ \E reader \in Readers :
          /\ m_data' = Remove(variant, m_data, reader)
          /\ nRemoved' = IF HasMatch(variant, m_data, reader)
                         THEN nRemoved + 1 ELSE nRemoved
          /\ last' = Call("Remove", reader, NoValue, m_data)
    /\ phase' = "other"
    /\ UNCHANGED <<variant, nextId, inserted, dropped, out, nDiscarded, streams, pc, closed>>

\* m_alignments->TakeFirst(), guarded by IsEmpty()
DoTakeFirst ==
    /\ ~IsEmpty(variant, m_data)
    /\ LET r == TakeFirst(variant, m_data) IN
          /\ m_data' = r.data
          /\ out' = Append(out, r.next)
          /\ last' = Call("TakeFirst", NullReader, r.next, m_data)
    /\ phase' = IF phase \in {"fill", "drain"} THEN "drain" ELSE "other"
    /\ UNCHANGED <<variant, nextId, inserted, dropped, nRemoved, nDiscarded, streams, pc, closed>>

Next ==
    \/ DoAdd
    \/ DoClear
    \/ DoFirst
    \/ DoRemove
    \/ DoTakeFirst

Spec == Init /\ [][Next]_vars

\* ---------------------------------------------------------- the read loop
\* The driver of the mergers (BamMultiReader): it adds the first record of
\* every source, then takes the first entry, emits it and adds the next
\* record of the reader it came from, until the merger is empty.
Sources == 1 .. NumSources

\* The reader the driver holds for source s (one file per source).
SourceReader(s) == 2 * s - 1

SourceOf(value) == GetFilename(value.first)

RecordId(s, k) == (s - 1) * MaxStreamLen + k

\* The streams a source can deliver to a merger of variant v: every sequence
\* of at most MaxStreamLen alignments that is sorted the way v merges.
StreamsOf(v) ==
    UNION {
        {st \in [1 .. n -> AlignmentsFor(v, 0)] : NonDecreasing(v, st)} : n \in 0 .. MaxStreamLen
    }

WithIds(s, st) ==
    [k \in 1 .. Len(st) |->
        Alignment(RecordId(s, k), st[k].RefID, st[k].Position, st[k].Name, st[k].charData)]

InitDriver ==
    /\ InitMerger
    /\ \E f \in [Sources -> StreamsOf(variant)] :
          streams = [s \in Sources |-> WithIds(s, f[s])]
    /\ pc = [at |-> "open", src |-> 1]

\* Reads the next record of source s, if any, and adds it.
SaveNextAlignment(s) ==
    IF streams[s] = <<>>
    THEN /\ closed' = closed \cup {s}
         /\ UNCHANGED <<m_data, nextId, inserted, dropped, streams, last>>
    ELSE LET value == ReaderAlignment(SourceReader(s), Head(streams[s])) IN
         /\ m_data' = Add(variant, m_data, value)
         /\ nextId' = nextId + 1
         /\ inserted' = IF Materializes(variant, value)
                        THEN Append(inserted, value) ELSE inserted
         /\ dropped' = IF Materializes(variant, value)
                       THEN dropped ELSE dropped \cup {value}
         /\ streams' = [streams EXCEPT ![s] = Tail(@)]
         /\ last' = Call("Add", SourceReader(s), value, m_data)
         /\ closed' = closed

DriverOpen ==
    /\ pc.at = "open"
    /\ SaveNextAlignment(pc.src)
    /\ pc' = IF pc.src < NumSources
             THEN [at |-> "open", src |-> pc.src + 1]
             ELSE [at |-> "loop", src |-> 0]
    /\ UNCHANGED <<variant, out, nRemoved, nDiscarded, phase>>

DriverTake ==
    /\ pc.at = "loop"
    /\ ~IsEmpty(variant, m_data)
    /\ LET r == TakeFirst(variant, m_data) IN
          /\ m_data' = r.data
          /\ out' = Append(out, r.next)
          /\ last' = Call("TakeFirst", NullReader, r.next, m_data)
          /\ pc' = [at |-> "refill", src |-> SourceOf(r.next)]
    /\ UNCHANGED <<variant, nextId, inserted, dropped, nRemoved, nDiscarded, phase,
                   streams, closed>>

DriverRefill ==
    /\ pc.at = "refill"
    /\ SaveNextAlignment(pc.src)
    /\ pc' = [at |-> "loop", src |-> 0]
    /\ UNCHANGED <<variant, out, nRemoved, nDiscarded, phase>>

DriverDone ==
    /\ pc.at = "loop"
    /\ IsEmpty(variant, m_data)
    /\ pc' = [at |-> "done", src |-> 0]
    /\ UNCHANGED <<variant, m_data, nextId, history, phase, last, streams, closed>>

NextDriver ==
    \/ DriverOpen
    \/ DriverTake
    \/ DriverRefill
    \/ DriverDone

SpecDriver == InitDriver /\ [][NextDriver]_vars

\* Out-of-band retirement: between two turns of the loop the driver closes a
\* source that is still open and calls Remove() with its reader.
DriverRetire ==
    /\ pc.at = "loop"
    /\ \E s \in Sources \ closed :
          /\ m_data' = Remove(variant, m_data, SourceReader(s))
          /\ nRemoved' = IF HasMatch(variant, m_data, SourceReader(s))
                         THEN nRemoved + 1 ELSE nRemoved
          /\ streams' = [streams EXCEPT ![s] = <<>>]
          /\ closed' = closed \cup {s}
          /\ last' = Call("Remove", SourceReader(s), NoValue, m_data)
    /\ UNCHANGED <<variant, nextId, inserted, dropped, out, nDiscarded, phase, pc>>

NextDriverRetire ==
    \/ NextDriver
    \/ DriverRetire

SpecDriverRetire == InitDriver /\ [][NextDriverRetire]_vars

\* The read loop is sequential code that runs on until the merger is empty.
SpecDriverFair == SpecDriver /\ WF_vars(NextDriver)

\* ----------------------------------------------------- the comparator alone
\* SortLessThanPosition applied to every pair of three keys.  The keys are
\* held in streams, the results in last.before.
CompareKeys == ((-2) .. MaxRefID) \X ((-1) .. MaxPos)

InitCompare ==
    /\ InitMerger
    /\ variant = "Position"
    /\ streams \in [1 .. 3 -> CompareKeys]
    /\ pc = [at |-> "compare", src |-> 0]

DoCompare ==
    /\ pc.at = "compare"
    /\ last' = Call("Compare", NullReader, NoValue,
                    [i \in 1 .. 3 |->
                        [j \in 1 .. 3 |-> SortLessThanPosition(streams[i], streams[j])]])
    /\ pc' = [at |-> "compared", src |-> 0]
    /\ UNCHANGED <<variant, m_data, nextId, history, phase, streams, closed>>

NextCompare == DoCompare

SpecCompare == InitCompare /\ [][NextCompare]_vars

\* ------------------------------------------------------------------ claims
Range(seq) == {seq[i] : i \in 1 .. Len(seq)}

Count(seq, x) == Cardinality({i \in 1 .. Len(seq) : seq[i] = x})

IsPermutation(a, b) ==
    /\ Len(a) = Len(b)
    /\ \A x \in Range(a) \cup Range(b) : Count(a, x) = Count(b, x)

\* The alignments of a sequence of ReaderAlignment values.
Als(values) == [i \in 1 .. Len(values) |-> values[i].second]

\* The values buffered now, and those buffered when the last call was made.
Buffered == Values(variant, m_data)
BufferedBefore == Values(variant, last.before)

\* The history is a run of Add() calls followed by TakeFirst() calls only.
FillThenDrain == phase \in {"fill", "drain"}
Drained == phase = "drain" /\ IsEmpty(variant, m_data)

\* entry carries the stable key of reader
SameSource(entry, reader) ==
    /\ reader # NullReader
    /\ entry.first # NullReader
    /\ GetFilename(entry.first) = GetFilename(reader)

\* C1: in every variant a Clear() call leaves the merger with no buffered
\* entry: IsEmpty() is true and Size() is 0 afterwards.
C1_ClearLeavesEmpty ==
    last.op = "Clear" =>
        /\ IsEmpty(variant, m_data)
        /\ Size(variant, m_data) = 0

\* C2: position order: after any run of Add() calls, the keys TakeFirst()
\* returns are non-decreasing (mapped by RefID then Position, unmapped after
\* all mapped), and once the merger is drained they are a permutation of the
\* entries added.
C2_PositionDrainSorted ==
    (variant = "Position" /\ FillThenDrain) =>
        /\ NonDecreasing("Position", Als(out))
        /\ Drained => IsPermutation(out, inserted)

\* a drain of three entries, mapped and unmapped, two of them with one key,
\* that were not added in sorted order
C2_Witness ==
    /\ variant = "Position"
    /\ Drained
    /\ Len(out) = 3
    /\ out # inserted
    /\ out[3].second.RefID = -1
    /\ out[1].second.RefID # -1
    /\ out[1].second.RefID = out[2].second.RefID
    /\ out[1].second.Position = out[2].second.Position

\* C3: position order, any interleaving of calls: First() and TakeFirst()
\* return an unmapped entry (RefID = -1) only when no mapped entry is
\* buffered.
C3_UnmappedOnlyWhenNoMapped ==
    (/\ variant = "Position"
     /\ last.op \in {"First", "TakeFirst"}
     /\ last.value.second.RefID = -1) =>
        \A e \in Range(BufferedBefore) : e.second.RefID = -1

\* unmapped added first with the larger position, then two mapped entries in
\* descending order; the third TakeFirst() returns the unmapped one
C3_Witness ==
    /\ variant = "Position"
    /\ Drained
    /\ Len(inserted) = 3
    /\ inserted[1].second.RefID = -1 /\ inserted[1].second.Position = MaxPos
    /\ inserted[2].second.RefID = 1
    /\ inserted[3].second.RefID = 0 /\ inserted[3].second.Position = 0
    /\ out = <<inserted[3], inserted[2], inserted[1]>>
    /\ last.op = "TakeFirst"

\* C4: read loop, position order, every source sorted: at every step the
\* emitted sequence is sorted by (RefID, Position) with unmapped last, and no
\* record is emitted twice.
C4_MergeSorted ==
    variant = "Position" =>
        /\ NonDecreasing("Position", Als(out))
        /\ \A i \in 1 .. Len(out) : Count(out, out[i]) = 1

\* three sources, the first one's second record emitted after the second
\* source's only record: (0,0) (0,1) (1,0) (1,1) from [(0,0),(1,0)], [(0,1)],
\* [(1,1)]
C4_Witness ==
    /\ variant = "Position"
    /\ pc.at = "done"
    /\ Len(out) = 4
    /\ [i \in 1 .. 4 |-> SourceOf(out[i])] = <<1, 2, 1, 3>>
    /\ [i \in 1 .. 4 |-> <<out[i].second.RefID, out[i].second.Position>>]
          = <<(<<0, 0>>), (<<0, 1>>), (<<1, 0>>), (<<1, 1>>)>>

\* C5: name order: after any run of Add() calls whose names all materialize,
\* the names TakeFirst() returns are lexicographically non-decreasing, and
\* once the merger is drained they are a permutation of the entries added.
C5_NameDrainSorted ==
    (variant = "ReadName" /\ FillThenDrain /\ dropped = {}) =>
        /\ NonDecreasing("ReadName", Als(out))
        /\ Drained => IsPermutation(out, inserted)

\* three distinct names added largest first and drained smallest first
C5_Witness ==
    /\ variant = "ReadName"
    /\ Drained
    /\ dropped = {}
    /\ Len(out) = 3
    /\ out = <<inserted[2], inserted[3], inserted[1]>>
    /\ out[1].second.Name # out[2].second.Name
    /\ out[2].second.Name # out[3].second.Name

\* C6: name order: an Add() whose name does not materialize leaves the
\* container exactly as it was, and the entry is never buffered nor returned
\* by a later First() or TakeFirst().
C6_FailedAddBuffersNothing ==
    variant = "ReadName" =>
        /\ (last.op = "Add" /\ ~last.value.second.charData) => m_data = last.before
        /\ \A v \in dropped :
              /\ v \notin Range(Buffered)
              /\ v \notin Range(out)
              /\ last.op \in {"First", "TakeFirst"} => last.value # v

\* a failed Add() on a merger that holds two entries
C6_Witness ==
    /\ variant = "ReadName"
    /\ last.op = "Add"
    /\ ~last.value.second.charData
    /\ last.value \in dropped
    /\ Len(last.before) = 2

\* C7: insertion order, any interleaving of calls: First() and TakeFirst()
\* return the entry added earliest among those buffered, and a drain after a
\* run of Add() calls returns the entries in the order they were added.
C7_UnsortedFifo ==
    variant = "Unsorted" =>
        /\ last.op \in {"First", "TakeFirst"} =>
              \A e \in Range(BufferedBefore) : last.value.second.id <= e.second.id
        /\ FillThenDrain =>
              out = SubSeq(inserted, 1, Len(out))

\* A, B, C added and drained
C7_Witness ==
    /\ variant = "Unsorted"
    /\ Drained
    /\ Len(out) = 3
    /\ last.op = "TakeFirst"

\* C8: every variant: a Remove(reader) that has a match erases exactly the
\* first matching entry in iteration order; Size() drops by 1 and all other
\* entries stay buffered in their relative order.
C8_RemoveErasesFirstMatch ==
    (/\ last.op = "Remove"
     /\ \E e \in Range(BufferedBefore) : SameSource(e, last.reader)) =>
        /\ Size(variant, m_data) = Size(variant, last.before) - 1
        /\ \E i \in 1 .. Len(last.before) :
              /\ SameSource(BufferedBefore[i], last.reader)
              /\ \A j \in 1 .. i - 1 : ~SameSource(BufferedBefore[j], last.reader)
              /\ \A k \in 1 .. i - 1 : m_data[k] = last.before[k]
              /\ \A k \in i .. Len(m_data) : m_data[k] = last.before[k + 1]

\* three entries, the first of another source, the other two of the source
\* removed and with one sort key
C8_Witness ==
    /\ last.op = "Remove"
    /\ variant # "Unsorted"
    /\ Len(last.before) = 3
    /\ ~SameSource(BufferedBefore[1], last.reader)
    /\ BufferedBefore[1].first # NullReader
    /\ SameSource(BufferedBefore[2], last.reader)
    /\ SameSource(BufferedBefore[3], last.reader)
    /\ last.before[2].key = last.before[3].key
    /\ Len(m_data) = 2

\* C9: every variant: Remove() with a null reader, or with a reader whose
\* file name no buffered entry has, leaves the container as it was.
C9_RemoveWithoutMatchIsNoOp ==
    (/\ last.op = "Remove"
     /\ \A e \in Range(BufferedBefore) : ~SameSource(e, last.reader)) =>
        m_data = last.before

\* a non-null reader that matches neither the entry of another file nor the
\* entry with a null reader
C9_Witness ==
    /\ last.op = "Remove"
    /\ last.reader # NullReader
    /\ Len(last.before) = 2
    /\ \E e \in Range(BufferedBefore) : e.first = NullReader
    /\ \E e \in Range(BufferedBefore) : e.first # NullReader
    /\ m_data = last.before

\* C10 as stated: Size() is the number of successful Add() calls minus the
\* successful TakeFirst() and Remove() calls, at every point of any sequence
\* of calls.
C10_SizeIsAddsMinusTakesAndRemoves ==
    Size(variant, m_data) = Len(inserted) - Len(out) - nRemoved

\* C10 as amended: Size() is the number of successful Add() calls minus the
\* successful TakeFirst() and Remove() calls and the entries Clear() calls
\* took out; a failed Add() and a Remove() without match do not count.
C10_SizeCountsClearToo ==
    Size(variant, m_data) = Len(inserted) - Len(out) - nRemoved - nDiscarded

\* a failed Add(), a TakeFirst() and a Clear() that took an entry out
C10_Witness ==
    /\ variant = "ReadName"
    /\ dropped # {}
    /\ Len(out) = 1
    /\ nDiscarded = 1
    /\ last.op = "Clear"

\* x is least among values under the ordering of variant v (insertion order
\* for the unsorted variant).
LeastIn(v, x, values) ==
    \A e \in Range(values) :
        IF v = "Unsorted" THEN x.second.id <= e.second.id
        ELSE InOrder(v, x.second, e.second)

\* seq without exactly one occurrence of x, the other elements in place
WithoutOne(seq, x, rest) ==
    \E i \in 1 .. Len(seq) : seq[i] = x /\ rest = EraseAt(seq, i)

\* C11: every variant, every non-empty state: First() returns the least
\* entry under the active ordering and leaves the container and Size() as
\* they were; a TakeFirst() made right after it returns that entry and
\* erases exactly it.
C11_PeekThenTake ==
    last.op = "First" =>
        /\ m_data = last.before
        /\ Size(variant, m_data) = Size(variant, last.before)
        /\ last.value \in Range(Buffered)
        /\ LeastIn(variant, last.value, Buffered)
        /\ TakeFirst(variant, m_data).next = last.value
        /\ Size(variant, TakeFirst(variant, m_data).data) = Size(variant, m_data) - 1
        /\ WithoutOne(Buffered, last.value, Values(variant, TakeFirst(variant, m_data).data))

\* First() on three entries of which the least was added last
C11_Witness ==
    /\ last.op = "First"
    /\ variant # "Unsorted"
    /\ Len(m_data) = 3
    /\ last.value = inserted[3]
    /\ \A i \in 2 .. 3 : ~InOrder(variant, m_data[i].value.second, last.value.second)

\* The entries the last call took out of the container.
Erased == {e \in Range(BufferedBefore) : Count(BufferedBefore, e) > Count(Buffered, e)}

\* C12: Remove() matches by the file name of the reader, not by the pointer:
\* a reader that is a different handle of the file of a buffered entry erases
\* that entry, and no entry is erased whose reader has another file name.
C12_RemoveMatchesByFilename ==
    last.op = "Remove" =>
        /\ \A e \in Erased : SameSource(e, last.reader)
        /\ (\E e \in Range(BufferedBefore) : SameSource(e, last.reader)) =>
              \E e \in Erased : SameSource(e, last.reader)

\* Remove() through the second handle of a file erases the entry added with
\* the first handle and leaves the entry of the other file
C12_Witness ==
    /\ last.op = "Remove"
    /\ Len(last.before) = 2
    /\ \A e \in Range(BufferedBefore) : e.first # NullReader /\ e.first # last.reader
    /\ \E e \in Erased : GetFilename(e.first) = GetFilename(last.reader)
    /\ \E e \in Range(Buffered) : GetFilename(e.first) # GetFilename(last.reader)

\* C13: every variant, every reachable state: IsEmpty() is true exactly when
\* Size() is 0.
C13_EmptyIffSizeZero ==
    IsEmpty(variant, m_data) <=> (Size(variant, m_data) = 0)

\* both queries report empty once the last entry was taken, after an
\* earlier Clear() that took an entry out
C13_Witness ==
    /\ last.op = "TakeFirst"
    /\ Len(last.before) = 1
    /\ nDiscarded = 1
    /\ IsEmpty(variant, m_data)
    /\ Size(variant, m_data) = 0

Unmapped(values) == SelectSeq(values, LAMBDA e : e.second.RefID = -1)
Mapped(values) == SelectSeq(values, LAMBDA e : e.second.RefID # -1)

IdsIncrease(values) ==
    \A i \in 1 .. Len(values) : \A j \in i + 1 .. Len(values) :
        values[i].second.id < values[j].second.id

\* C14: position order: unmapped entries are buffered and returned in the
\* order they were added, whatever their positions, and a drain after a run
\* of Add() calls returns them as a tail in that order.
C14_UnmappedInEncounterOrder ==
    variant = "Position" =>
        /\ IdsIncrease(Unmapped(Buffered))
        /\ IdsIncrease(Unmapped(out))
        /\ FillThenDrain => out = Mapped(out) \o Unmapped(out)
        /\ Drained => Unmapped(out) = Unmapped(inserted)

\* two unmapped entries added with descending positions before a mapped one
C14_Witness ==
    /\ variant = "Position"
    /\ Drained
    /\ Len(inserted) = 3
    /\ inserted[1].second.RefID = -1 /\ inserted[1].second.Position = MaxPos
    /\ inserted[2].second.RefID = -1 /\ inserted[2].second.Position = 0
    /\ inserted[3].second.RefID # -1
    /\ out = <<inserted[3], inserted[1], inserted[2]>>

\* The sort keys of two alignments are equivalent for variant v: the same
\* (RefID, Position) or both unmapped, or the same name.
EquivalentKeys(v, al1, al2) == InOrder(v, al1, al2) /\ InOrder(v, al2, al1)

\* Values with equivalent keys follow one another in the order they were added.
EquivalentInAddOrder(v, values) ==
    \A i \in 1 .. Len(values) : \A j \in i + 1 .. Len(values) :
        EquivalentKeys(v, values[i].second, values[j].second) =>
            values[i].second.id < values[j].second.id

\* The key an element must carry: the one its record had when it was added.
KeyAtAdd(v, value) ==
    IF v = "Position" THEN <<value.second.RefID, value.second.Position>>
    ELSE value.second.Name

\* C19: position and name order: entries with equivalent sort keys are
\* buffered and returned in the order they were added, a Remove() with
\* several matches of equivalent keys erases the one added first, and every
\* element is filed under the key its record had when it was added.
C19_EqualKeysInAddOrder ==
    variant \in {"Position", "ReadName"} =>
        /\ EquivalentInAddOrder(variant, Buffered)
        /\ EquivalentInAddOrder(variant, out)
        /\ last.op = "Remove" =>
              \A e \in Erased : \A f \in Range(BufferedBefore) :
                  (SameSource(f, last.reader) /\ EquivalentKeys(variant, e.second, f.second))
                      => e.second.id <= f.second.id
        /\ \A i \in 1 .. Len(m_data) : m_data[i].key = KeyAtAdd(variant, m_data[i].value)

\* two entries of one file with one name, a smaller name added after them;
\* Remove() erased the one of the two that was added first
C19_Witness ==
    /\ variant = "ReadName"
    /\ last.op = "Remove"
    /\ Len(last.before) = 3
    /\ inserted[1].second.Name = inserted[2].second.Name
    /\ inserted[3].second.Name # inserted[1].second.Name
    /\ BufferedBefore = <<inserted[3], inserted[1], inserted[2]>>
    /\ Buffered = <<inserted[3], inserted[2]>>

\* C20: SortLessThanPosition is a strict weak ordering of the keys of a
\* bounded range that includes RefID = -1: irreflexive, asymmetric,
\* transitive, with transitive incomparability; all unmapped keys are
\* equivalent and every mapped key is less than every unmapped key.
C20_StrictWeakOrdering ==
    pc.at = "compared" =>
        LET key == streams
            less == last.before
            equiv(i, j) == ~less[i][j] /\ ~less[j][i]
        IN  \A i, j, k \in 1 .. 3 :
               /\ ~less[i][i]
               /\ less[i][j] => ~less[j][i]
               /\ (less[i][j] /\ less[j][k]) => less[i][k]
               /\ (equiv(i, j) /\ equiv(j, k)) => equiv(i, k)
               /\ (key[i][1] = -1 /\ key[j][1] = -1) => equiv(i, j)
               /\ (key[i][1] # -1 /\ key[j][1] = -1) => less[i][j]

\* two unmapped keys with different positions and a mapped key with a larger
\* position than both
C20_Witness ==
    /\ pc.at = "compared"
    /\ streams[1][1] = -1 /\ streams[2][1] = -1
    /\ streams[1][2] < streams[2][2]
    /\ streams[3][1] = MaxRefID /\ streams[3][2] > streams[2][2]
    /\ last.before[3][1] /\ last.before[3][2]

\* Every record of every source was read and added, and the emitted sequence
\* holds each of them once.
AllEmitted ==
    /\ \A s \in Sources : streams[s] = <<>>
    /\ dropped = {}
    /\ Len(inserted) = nextId
    /\ IsPermutation(out, inserted)
    /\ \A i \in 1 .. Len(out) : Count(out, out[i]) = 1

\* C15: read loop with the position-ordered or the unsorted merger: the loop
\* eventually finds the merger empty, and then every record of every source
\* has been emitted exactly once.
C15_LoopDrainsEverything ==
    (variant \in {"Position", "Unsorted"}) =>
        /\ <>(pc.at = "done")
        /\ [](pc.at = "done" => AllEmitted)

\* the loop ended after emitting the records of NumSources full streams
C15_Witness ==
    /\ variant = "Position"
    /\ pc.at = "done"
    /\ Len(out) = NumSources * MaxStreamLen
    /\ AllEmitted

\* A record whose BuildCharData() succeeds is still unread in some source.
MaterializingLeftUnread ==
    \E s \in Sources : \E k \in 1 .. Len(streams[s]) : streams[s][k].charData

\* C16: read loop with the name-ordered merger: when the loop finds the merger
\* empty, every record whose name materializes has been read and emitted, the
\* ones that follow a failed record in the same source included.
C16_OnlyFailedRecordsMissing ==
    (variant = "ReadName" /\ pc.at = "done") =>
        /\ ~MaterializingLeftUnread
        /\ IsPermutation(out, inserted)

\* The place of a record in the round-robin cycle: its index in its own
\* stream first, its source (in the order the sources were opened) second.
Round(al) == ((al.id - 1) % MaxStreamLen) + 1

CycleBefore(al1, s1, al2, s2) ==
    \/ Round(al1) < Round(al2)
    \/ Round(al1) = Round(al2) /\ s1 < s2

\* C17: read loop with the unsorted merger: the records come out round-robin,
\* the heads of the sources in the order the sources were opened, cycle after
\* cycle, an exhausted source leaving the cycle, and so each source's records
\* in stream order: the emitted sequence is in cycle order, and every record
\* still buffered or unread comes later in the cycle than every emitted one.
C17_RoundRobinByArrival ==
    (variant = "Unsorted") =>
        /\ \A i, j \in 1 .. Len(out) :
              i < j => CycleBefore(out[i].second, SourceOf(out[i]),
                                   out[j].second, SourceOf(out[j]))
        /\ \A i \in 1 .. Len(out) :
              /\ \A e \in Range(Buffered) :
                    CycleBefore(out[i].second, SourceOf(out[i]), e.second, SourceOf(e))
              /\ \A s \in Sources : \A k \in 1 .. Len(streams[s]) :
                    CycleBefore(out[i].second, SourceOf(out[i]), streams[s][k], s)

\* streams of 2, 1 and 2 records were merged: sources 1 2 3, then 1 3
C17_Witness ==
    /\ variant = "Unsorted"
    /\ pc.at = "done"
    /\ [i \in 1 .. Len(out) |-> SourceOf(out[i])] = <<1, 2, 3, 1, 3>>
    /\ [i \in 1 .. Len(out) |-> Round(out[i].second)] = <<1, 1, 1, 2, 2>>

\* The sources the driver has opened and neither retired nor found exhausted.
OpenSources ==
    {s \in Sources \ closed : pc.at # "open" \/ s < pc.src}

EntriesOf(s) == {i \in 1 .. Len(Buffered) : SourceOf(Buffered[i]) = s}

\* C18: read loop with out-of-band retirement, every variant: each source has
\* at most one buffered entry, and Size() is at most the number of open
\* sources.
C18_OneEntryPerSource ==
    /\ \A s \in Sources : Cardinality(EntriesOf(s)) <= 1
    /\ Size(variant, m_data) <= Cardinality(OpenSources)

\* a source was refilled after a take, then another one was retired with its
\* entry buffered: the two sources left open hold one entry each
C18_Witness ==
    /\ Len(out) >= 1
    /\ last.op = "Remove"
    /\ HasMatch(variant, last.before, last.reader)
    /\ Cardinality(OpenSources) = 2
    /\ Size(variant, m_data) = 2
    /\ \A s \in OpenSources : Cardinality(EntriesOf(s)) = 1

====
